---------------------------- MODULE Spec2Model ----------------------------
(***************************************************************************)
(* Model of the fiapinho-bot calendar synchronisation engine:              *)
(*   FIAPSession.login / authenticate_fiap   (app/webhooks/core)           *)
(*   FIAPCalendarAPI                         (sync_calendar/evens_api.py)  *)
(*   CalendarSyncWebhook.execute and stages  (sync_calendar/app.py)        *)
(*   FiapinhoCog.add_manual_event            (app/cogs/fiap.py)            *)
(* An event record is a finite map from field names to values (a Python    *)
(* dict); the store is the JSON array of the current period's file.        *)
(***************************************************************************)
EXTENDS Integers, Sequences, FiniteSets, TLC

\* ------------------------------------------------------------------ bounds
\* Longest event list one upstream response carries.
MaxBatch == 2
\* Longest event list one day of the per-day scan carries.
MaxDayBatch == 1
\* Days of the month walked by the per-day scan.
DaysInMonth == 2
\* Largest MAX_LOGIN_RETRIES the environment configures.
MaxLoginRetries == 3
\* Most records the period's file holds when _process_events is checked alone.
MaxStored == 2
\* Most operations a caller makes on one FIAPCalendarAPI.
MaxApiCalls == 2
MaxRuns == 2
MaxAnnounced == 2

\* ------------------------------------------------------------------ values
\* dict.get(key) of an absent key.
None == "None"

\* Python truthiness of a value read with dict.get.
Truthy(v) == v \notin {None, ""}

\* event.get(f)
Get(event, f) == IF f \in DOMAIN event THEN event[f] ELSE None

\* len(event): the number of keys of the dict.
FieldCount(event) == Cardinality(DOMAIN event)

\* event.update(other): keys of other override, every other key is kept.
DictUpdate(event, other) ==
    [f \in (DOMAIN event) \cup (DOMAIN other) |->
        IF f \in DOMAIN other THEN other[f] ELSE event[f]]

\* Records the upstream portal serves.  e1 comes in a two-field version, a
\* three-field version and a second two-field version; one record has no id.
ScrapedPool ==
    { [id |-> "e1", type |-> "Live"],
      [id |-> "e1", type |-> "Live", content |-> "aula"],
      [id |-> "e1", type |-> "Schedule"],
      [id |-> "e2", type |-> "Live"],
      [type |-> "Live"] }

\* Sequences over S of length at most n.
RECURSIVE SeqsUpTo(_, _)
SeqsUpTo(S, n) ==
    IF n = 0 THEN {<<>>}
    ELSE LET shorter == SeqsUpTo(S, n - 1)
         IN  shorter \cup {Append(s, x) : s \in {t \in shorter : Len(t) = n - 1}, x \in S}

\* Event lists a caller hands to _process_events.
Batches == SeqsUpTo(ScrapedPool, MaxBatch)

ScrapedIds == {Get(event, "id") : event \in {e \in ScrapedPool : Truthy(Get(e, "id"))}}

\* Records the panel endpoint serves for today.
PortalPool ==
    { [id |-> "e1", type |-> "Live"],
      [id |-> "e1", type |-> "Live", content |-> "aula"],
      [id |-> "e2", type |-> "Live"] }

PortalBatches == SeqsUpTo(PortalPool, MaxBatch)

PortalIds == {event.id : event \in PortalPool}

\* Records the panel endpoint serves for another day of the month.
DayPool == { [id |-> "e1", type |-> "Live"] }

DayBatches == SeqsUpTo(DayPool, MaxDayBatch)

\* The 'data' object of a detail response (get_calendar_event): it adds the
\* field 'local' and carries its own 'content'.
DetailData == [local |-> "https://teams/x", content |-> "detalhe"]

\* ----------------------------------------------------------- list helpers
Range(s) == {s[i] : i \in 1..Len(s)}

\* {event.get('id') for event in events if event.get('id')}
IdsOf(events) == {Get(events[i], "id") : i \in {j \in 1..Len(events) : Truthy(Get(events[j], "id"))}}

\* Index of the first element of s with the id, 0 when there is none.
FirstIndexOf(s, id) ==
    IF \E i \in 1..Len(s) : Get(s[i], "id") = id
    THEN CHOOSE i \in 1..Len(s) :
            /\ Get(s[i], "id") = id
            /\ \A j \in 1..(i - 1) : Get(s[j], "id") # id
    ELSE 0

\* s with position i replaced by x.
ReplaceAt(s, i, x) == [s EXCEPT ![i] = x]


\* ------------------------------------------------------------ event store
\* _load_existing_events: the period's file as a list; a missing file (the
\* empty list here) and any exception while reading both give [].
LoadExistingEvents(file, readOk) == IF readOk THEN file ELSE <<>>

\* How one _save_events call ends:
\*   ok         the whole list is written
\*   unopened   open(filename, 'w') raised: the file keeps its content
\*   truncated  open truncated the file and json.dump raised before the end:
\*              the file no longer parses, so every later load gives []
WriteOutcomes == {"ok", "unopened", "truncated"}

\* _save_events: json.dump of the whole list over the period's file; an
\* exception is logged and swallowed.  Every value of an event is a JSON
\* string, number, boolean or null, which json.dump/json.load preserve.
SaveEvents(file, events, outcome) ==
    IF outcome = "ok" THEN events
    ELSE IF outcome = "unopened" THEN file
    ELSE <<>>

\* Whether the call wrote the whole list: "ok", or "failed".
WriteResult(outcome) == IF outcome = "ok" THEN "ok" ELSE "failed"

\* ------------------------------------------------ _process_events (pure)
\* A comparison that also lets a later record of equal size replace the kept one.
MoreCompleteLoose(event, kept) == FieldCount(event) >= FieldCount(kept)

\* Line 271: the later record replaces the kept one only when it has more keys.
MoreComplete(event, kept) == FieldCount(event) > FieldCount(kept)

\* Lines 264-274: unique_events, a dict in insertion order, as the list of
\* its values; records without a truthy id are left out.
RECURSIVE DedupFrom(_, _, _)
DedupFrom(events, i, unique) ==
    IF i > Len(events) THEN unique
    ELSE LET event == events[i]
             event_id == Get(event, "id")
             k == FirstIndexOf(unique, event_id)
         IN  IF ~Truthy(event_id) THEN DedupFrom(events, i + 1, unique)
             ELSE IF k = 0 THEN DedupFrom(events, i + 1, Append(unique, event))
             ELSE IF MoreComplete(event, unique[k])
                  THEN DedupFrom(events, i + 1, ReplaceAt(unique, k, event))
                  ELSE DedupFrom(events, i + 1, unique)

Deduplicate(events) == DedupFrom(events, 1, <<>>)

\* A filter that returns every deduplicated event, known or not.
FilterNewAll(events, existing_ids) ==
    SelectSeq(events, LAMBDA event : Truthy(Get(event, "id")))

\* Lines 278-287: the deduplicated events whose id is not an existing id.
FilterNew(events, existing_ids) ==
    SelectSeq(events, LAMBDA event :
        Truthy(Get(event, "id")) /\ Get(event, "id") \notin existing_ids)

\* Lines 293-298: the existing events that have an id, in file order.
ExistingWithId(existing_events) ==
    SelectSeq(existing_events, LAMBDA event : Truthy(Get(event, "id")))

\* Lines 301-310: each fetched event is appended when its id is not an
\* existing id, and otherwise replaces the first stored event of that id.
RECURSIVE MergeFrom(_, _, _, _)
MergeFrom(events, i, existing_event_ids, all_events_for_storage) ==
    IF i > Len(events) THEN all_events_for_storage
    ELSE LET event == events[i]
             event_id == Get(event, "id")
             k == FirstIndexOf(all_events_for_storage, event_id)
         IN  IF Truthy(event_id) /\ event_id \notin existing_event_ids
             THEN MergeFrom(events, i + 1, existing_event_ids,
                            Append(all_events_for_storage, event))
             ELSE IF Truthy(event_id) /\ k # 0
                  THEN MergeFrom(events, i + 1, existing_event_ids,
                                 ReplaceAt(all_events_for_storage, k, event))
                  ELSE MergeFrom(events, i + 1, existing_event_ids,
                                 all_events_for_storage)

\* A merge that appends every fetched event, also when its id is stored.
AllEventsForStorageAppendAll(existing_events, events) ==
    ExistingWithId(existing_events) \o events

\* Lines 289-310: the list _process_events saves.
AllEventsForStorage(existing_events, events) ==
    MergeFrom(events, 1, IdsOf(ExistingWithId(existing_events)),
              ExistingWithId(existing_events))

\* ---------------------------------------- _update_stored_events (pure)
\* Lines 446-450: updated_map, the last updated event of each truthy id.
UpdatedMapHas(updated_events, id) ==
    \E i \in 1..Len(updated_events) :
        Truthy(Get(updated_events[i], "id")) /\ Get(updated_events[i], "id") = id

UpdatedMapGet(updated_events, id) ==
    LET last == CHOOSE i \in 1..Len(updated_events) :
                    /\ Get(updated_events[i], "id") = id
                    /\ \A j \in (i + 1)..Len(updated_events) :
                           Get(updated_events[j], "id") # id
    IN  updated_events[last]

\* Lines 453-456: every stored event whose id is in the map is replaced.
ReplaceUpdated(existing_events, updated_events) ==
    [i \in 1..Len(existing_events) |->
        IF UpdatedMapHas(updated_events, Get(existing_events[i], "id"))
        THEN UpdatedMapGet(updated_events, Get(existing_events[i], "id"))
        ELSE existing_events[i]]


\* ------------------------------------------------------ upstream responses
\* What one call of FIAPCalendarAPI hands back to the engine:
\*   api_error   a dict with an 'error' key (non-200, bad JSON, exception)
\*   data        a list whose first item is {'data': [...]} without error
\*   bare_item   a list whose first item is a dict without 'data' or error
\*   error_item  a list whose first item carries a truthy 'error'
\*   empty       anything that is not a non-empty list
\*   malformed   (detail call only) a first item whose 'data' is no mapping,
\*               so that event.update raises
BareItem == [id |-> "e1", type |-> "Live", content |-> "aula"]

OtherResponses ==
    { [kind |-> "api_error"], [kind |-> "error_item"], [kind |-> "empty"],
      [kind |-> "bare_item", item |-> BareItem] }

DataResponse(batch) == [kind |-> "data", data |-> batch]

PanelResponses(today) == OtherResponses \cup {DataResponse(today)}

DayResponses == OtherResponses \cup {DataResponse(b) : b \in DayBatches}

DetailResponses ==
    { [kind |-> "api_error"], [kind |-> "error_item"], [kind |-> "empty"],
      [kind |-> "malformed"],
      [kind |-> "bare_item", item |-> DetailData], DataResponse(DetailData) }

\* ------------------------------------------------------------ FIAPSession
NewSession == [transport |-> "none", sesskey |-> FALSE, is_authenticated |-> FALSE]

\* __aenter__
Enter(session) == [session EXCEPT !.transport = "open"]

\* __aexit__: closes the transport when there is one; the token and the
\* authenticated flag are left as they are.
Exit(session) ==
    IF session.transport = "none" THEN session
    ELSE [session EXCEPT !.transport = "closed"]

\* What the login page answers to one POST:
\*   exception   the POST raised (network error, closed transport)
\*   invalid     the body carries the invalid-credentials text
\*   token       status 200 and a sesskey cookie in the jar
\*   notoken     status 200 and no sesskey cookie
\*   http_error  another status, no invalid-credentials text
LoginResponses == {"exception", "invalid", "token", "notoken", "http_error"}

\* The attempt's response meets the success condition of login.
IsLoginSuccess(resp) == resp = "token"

\* A loop that runs one attempt more than range(1, max_retries + 1).
LoopRunsOnceMore(n, max) == n <= max + 1

\* Line 54: attempt number n is in range(1, max_retries + 1).
LoopRuns(n, max) == n <= max

\* An attempt whose exception is not caught by the except clause of line 124.
LoginStepUncaught(resp, n, max) ==
    IF resp = "invalid" THEN (IF n = max THEN "false" ELSE "continue")
    ELSE IF resp = "token" THEN "true"
    ELSE IF resp = "exception" THEN "raised"
    ELSE "continue"

\* An except clause that sleeps after the final attempt as well.
LoginStepWaitsOnFinal(resp, n, max) ==
    IF resp = "invalid" THEN (IF n = max THEN "false" ELSE "continue")
    ELSE IF resp = "token" THEN "true"
    ELSE IF resp = "exception" THEN "wait"
    ELSE "continue"

\* Lines 57-131: what attempt number n does after its response:
\*   "true"/"false"  login returns; "continue" the loop goes on at once;
\*   "wait"          asyncio.sleep(2), then the loop goes on.
\* A response without a token, or with another status, returns nothing: the
\* loop goes on, and line 133 returns False once the range is exhausted.
LoginStep(resp, n, max) ==
    IF resp = "invalid" THEN (IF n = max THEN "false" ELSE "continue")
    ELSE IF resp = "token" THEN "true"
    ELSE IF resp = "exception" THEN (IF n = max THEN "false" ELSE "wait")
    ELSE "continue"

\* ---------------------------------------------------------- FIAPCalendarAPI
\* The precondition of the three operations and of _make_api_request_json:
\* "raise" when the session is not authenticated, has no token or has no
\* transport; an error value when the POST fails on a closed transport;
\* otherwise the upstream's answer.
\* An operation that never checks the session.
RejectsNever(session) == FALSE

\* Lines 51-52, 86-87, 120-121: the check every operation starts with.
Rejects(session) == ~session.is_authenticated \/ ~session.sesskey

\* __init__, lines 32-35: "raise" over a session that is not authenticated.
Construct(session) == IF ~session.is_authenticated THEN "raise" ELSE "built"

\* Line 172 is reached with a transport that can send: a POST goes out.
SendsPost(session) == ~Rejects(session) /\ session.transport = "open"

ApiCall(session, resp) ==
    IF Rejects(session) THEN [kind |-> "raise"]
    ELSE IF session.transport = "none" THEN [kind |-> "raise"]
    ELSE IF session.transport = "closed" THEN [kind |-> "api_error"]
    ELSE resp

\* How the POST of _make_api_request_json ends: it raises (network error),
\* the status is not 200, the body is no JSON, or the body is parsed.
PostOutcomes ==
    { [post |-> "exception"], [post |-> "status"], [post |-> "badjson"],
      [post |-> "json", answer |-> DataResponse(<<>>)],
      [post |-> "json", answer |-> [kind |-> "error_item"]] }

\* A request whose network exception is not caught.
PostAnswerUncaught(outcome) ==
    IF outcome.post = "json" THEN outcome.answer
    ELSE IF outcome.post = "exception" THEN [kind |-> "raise"]
    ELSE [kind |-> "api_error"]

\* Lines 172-191: the parsed body, or an error value for a status other
\* than 200 (178), a body that is no JSON (187) and any exception (191).
PostAnswer(outcome) ==
    IF outcome.post = "json" THEN outcome.answer ELSE [kind |-> "api_error"]

\* What the caller of an operation holds afterwards: an exception, a value
\* with an 'error' key, or another value.
OutcomeOf(resp) ==
    IF resp.kind = "raise" THEN "raise"
    ELSE IF resp.kind = "api_error" THEN "error"
    ELSE "value"

\* ------------------------------------------------- _fetch_calendar_events
\* A trigger that ignores resync.
NeedsFallbackOnErrorOnly(resp, resyncFlag) == resp.kind = "api_error"

\* Line 123: the fallback is taken on an error value or on resync.
NeedsFallback(resp, resyncFlag) == resp.kind = "api_error" \/ resyncFlag

\* Lines 136-161: the events of a response, or None.
ExtractEvents(resp) ==
    IF resp.kind = "data" THEN [ok |-> TRUE, events |-> resp.data]
    ELSE IF resp.kind = "bare_item" THEN [ok |-> TRUE, events |-> <<>>]
    ELSE [ok |-> FALSE, events |-> <<>>]

\* Lines 208-212: the day's events with a new truthy id are appended.
RECURSIVE AddUnseen(_, _, _)
AddUnseen(all, day_events, i) ==
    IF i > Len(day_events) THEN all
    ELSE LET event == day_events[i]
             event_id == Get(event, "id")
         IN  IF Truthy(event_id) /\ event_id \notin IdsOf(all)
             THEN AddUnseen(Append(all, event), day_events, i + 1)
             ELSE AddUnseen(all, day_events, i + 1)

\* Lines 192-194 and 200, 216-218: the response is an error value, its first
\* item carries a truthy 'error', or the call raised.
IsErrorResponse(resp) == resp.kind \in {"api_error", "error_item", "raise"}

\* Lines 197-205: day_events of one day's response; a first item without
\* 'data' is taken as a single event.
DayEvents(resp) ==
    IF resp.kind = "data" THEN resp.data
    ELSE IF resp.kind = "bare_item" THEN <<resp.item>>
    ELSE <<>>

\* len(event) of the versions of an id in one day's list (lines 207-208).
SizesServed(day_events, id) ==
    {FieldCount(day_events[i]) :
        i \in {j \in 1..Len(day_events) : Get(day_events[j], "id") = id}}

Largest(sizes, floor) ==
    IF sizes = {} THEN floor
    ELSE LET top == CHOOSE n \in sizes : \A m \in sizes : m <= n
         IN  IF top > floor THEN top ELSE floor

\* A scan that starts over from an empty list when a day fails.
ScanOneDayRestarts(all, resp) ==
    IF IsErrorResponse(resp) THEN <<>> ELSE AddUnseen(all, DayEvents(resp), 1)

\* Lines 190-225: one day's response folded into all_events; a day that
\* failed leaves the list as it is.
ScanOneDay(all, resp) ==
    IF IsErrorResponse(resp) THEN all ELSE AddUnseen(all, DayEvents(resp), 1)

\* ---------------------------------------------------- _fetch_event_details
\* Line 341: the event is passed through without a detail call.
\* A test that skips only the event that has neither id nor type.
SkipsDetailBoth(event) == ~Truthy(Get(event, "id")) /\ ~Truthy(Get(event, "type"))

SkipsDetail(event) == ~Truthy(Get(event, "id")) \/ ~Truthy(Get(event, "type"))

\* Lines 347-382: the pass reaches asyncio.sleep(1) unless the call or the
\* merge of its answer raised, which the except clause of line 384 takes over.
SleepsAfter(resp) == resp.kind \notin {"raise", "malformed"}

\* Lines 356-365: the response carries detail fields that are merged in.
CarriesDetail(resp) == resp.kind \in {"data", "bare_item"}

\* Lines 356-379: the event after the detail response.
Enrich(event, resp) ==
    IF resp.kind = "data" THEN DictUpdate(event, resp.data)
    ELSE IF resp.kind = "bare_item" THEN DictUpdate(event, resp.item)
    ELSE event

\* A loop that leaves out the event whose detail call failed.
AfterDetailDropsFailed(updated, event, resp) ==
    IF CarriesDetail(resp) THEN Append(updated, Enrich(event, resp)) ELSE updated

\* Lines 375-379 and 384-387: the event, enriched or as it was, is appended
\* to updated_events on every branch, the except clause included.
AfterDetail(updated, event, resp) == Append(updated, Enrich(event, resp))

\* ------------------------------------- send_auth_failure_notification
\* What becomes of the notification: the monitoring channel id is unset, the
\* channel is not found, the send raises (swallowed), or the message is sent.
DeliveryOutcomes == {"unset", "not_found", "send_failed", "sent"}

\* Messages that reach the monitoring channel.
AuthFailureMessages(delivery) == IF delivery = "sent" THEN 1 ELSE 0

\* --------------------------------------------------------- add_manual_event
\* Lines 302-318: the event the command builds; its id is manual_<time>_<hex>.
ManualEvent ==
    [id |-> "manual_1700000000_ab12cd34", type |-> "Live", content |-> "aula",
     is_manual |-> TRUE]

\* An addition that does not look for the id among the stored ones.
AppendManualUnchecked(existing_events, manual_event) ==
    Append(existing_events, manual_event)

\* Lines 322-333: the event is appended unless its id is already stored, in
\* which case the command returns and nothing is saved.
AppendManual(existing_events, manual_event) ==
    IF manual_event.id \in IdsOf(existing_events) THEN existing_events
    ELSE Append(existing_events, manual_event)

\* What the period's file holds when the bot starts: nothing, or a manual
\* event an operator added earlier.
InitialStores == {<<>>, <<ManualEvent>>}

\* -------------------------------------------------------------------- state
VARIABLES
    store,                  \* the period's events file: a list of events
    upstream,               \* the events the panel endpoint serves for today
    pc,                     \* position of execute: idle, login, authfail, fetch,
                            \* scan, process, enrich, update, notify, cleanup, done
    resync,                 \* execute(resync=...), drawn where line 123 reads it
    max_retries,            \* login's max_retries
    attempt,                \* login's loop counter
    login_result,           \* what login did: none, true, false, raised
    success,                \* execute's success: none, true, false
    session,                \* the run's FIAPSession
    self_session,           \* CalendarSyncWebhook.session is set
    day,                    \* per-day scan: next day to fetch
    all_events,             \* per-day scan: events accumulated
    events_data,            \* the events handed to _process_events
    existing_events,        \* _process_events: what the load returned
    events,                 \* _process_events: the batch after deduplication
    new_events,             \* _process_events: its return value
    all_events_for_storage, \* _process_events: the list it saved
    index,                  \* loop position in the enrich and notify stages
    updated_events,         \* _fetch_event_details: its result so far
    result,                 \* execute's return value: none, true, false
    command,                \* add_manual_event: where it is suspended, and
                            \* its local existing_events
    in_progress,            \* trigger layer: the execute calls under way
    instance,               \* trigger layer: self.session and self.api of the
                            \* webhook (the run whose session it is, 0 for
                            \* None) and the transport of each run's session
    month,                  \* the month datetime.now() shows: 1, then 2
    next_store,             \* the events file of month 2
    obs                     \* observations of the run, read by the properties

vars == <<store, upstream, pc, resync, max_retries, attempt, login_result,
          success, session, self_session, day, all_events, events_data,
          existing_events, events, new_events, all_events_for_storage, index,
          updated_events, result, command, in_progress, instance, month,
          next_store, obs>>

loginVars == <<max_retries, attempt, login_result, session>>
scanVars == <<day, all_events>>
processVars == <<existing_events, events, new_events, all_events_for_storage>>
stageVars == <<scanVars, events_data, processVars, index, updated_events>>
periodVars == <<month, next_store>>
hostVars == <<in_progress, command, instance>>

\* No add_manual_event is under way.
NoCommand == [pc |-> "none", existing_events |-> <<>>]

\* The webhook object as __init__ leaves it: no session, no API object.
NoInstance ==
    [session |-> 0, api |-> 0, transports |-> [k \in 1..MaxRuns |-> "none"]]

\* Lines 403-404 and 424-425: the file datetime.now() names while the clock
\* shows month m.
FileOf(m) == IF m = 1 THEN store ELSE next_store

\* The clock after a lapse during which the month may have ended.
ClockAfter(m, roll) == IF roll THEN 2 ELSE m

\* A save into the period that was computed when the list was loaded.
SavePeriodAsLoaded(loaded, now) == loaded

\* Lines 423-425: _save_events takes the period from a datetime.now() of its
\* own, whatever period the list came from.
SavePeriod(loaded, now) == now

\* Calls the run has made so far.
NoCalls ==
    [auth_notice |-> 0, auth_message |-> 0, fetch |-> 0, range |-> 0,
     detail |-> 0, write |-> 0, announce |-> 0, announce_error |-> 0]

\* What is observed of the fetch stage, until _process_events starts:
\*   fast_kind    the kind of the fast path's response, until the next call
\*   scan_ids     the ids served by the days of the scan that did not fail
\*   skipped      a day of the scan failed
\*   after_skip   a day that came after a failed day served an event
\*   richest      per id, the largest number of fields a day has served
\*   mixed        one day served an id in versions of different sizes
NoFetchObs ==
    [fast_kind |-> "none", scan_ids |-> {}, skipped |-> FALSE,
     after_skip |-> FALSE, richest |-> [id \in ScrapedIds |-> 0],
     mixed |-> FALSE]

\* A FIAPCalendarAPI under a caller of its own:
\*   built     the constructor has returned an object
\*   op        the latest call: construct, range, panel, event
\*   on        the fields of the session when that call was made
\*   post      how the POST of that call ended, had it been made
\*   outcome   what the caller got: raise, built, error, value
\*   calls     operations called so far
\*   posts     POSTs sent so far
NoApiUse ==
    [built |-> FALSE, op |-> "none", on |-> NewSession, post |-> "none",
     outcome |-> "none", calls |-> 0, posts |-> 0]

\* obs.calls         calls made by the current run
\* obs.saw_success   some attempt of the current login met the success condition
\* obs.waits         backoff sleeps (asyncio.sleep(2)) of the current login
\* obs.last_raised   the latest attempt of the current login raised
\* obs.api           the latest use of a FIAPCalendarAPI, see NoApiUse
\* obs.fetch_ok      some fetch call of the current run returned no error
\* obs.fetching      see NoFetchObs
\* obs.detailed      per new event: its detail response carried detail data
\* obs.unslept       inside the loop of _fetch_event_details: the latest
\*                   detail call was not followed by asyncio.sleep(1)
\* obs.announced     per portal id: messages sent about it since the bot
\*                   started, where a specification keeps count
\* obs.last_write    whether the latest _save_events of the current run
\*                   wrote its list: none, ok, failed
\* obs.fast_path     events_data is the list the fast path served for today
\* obs.at_start      the store when the run was triggered
\* obs.at_load       the store when _process_events loaded it
\* obs.stable        the last run returned true on the fast path, and the
\*                   upstream has not changed since
\* obs.from_empty    that last run started from an empty store with a batch
\*                   of distinct ids
\* obs.second        the current run was triggered while obs.stable held
\* obs.second_of_empty   ... and while obs.from_empty held
InitObs ==
    [calls |-> NoCalls, saw_success |-> FALSE, waits |-> 0, last_raised |-> FALSE,
     unslept |-> FALSE, announced |-> [id \in PortalIds |-> 0],
     fast_path |-> FALSE,
     fetch_ok |-> FALSE, fetching |-> NoFetchObs, detailed |-> <<>>,
     last_write |-> "none", api |-> NoApiUse,
     at_start |-> <<>>, at_load |-> <<>>, stable |-> FALSE,
     from_empty |-> FALSE, second |-> FALSE, second_of_empty |-> FALSE]

Count(o, what) == [o EXCEPT !.calls[what] = @ + 1]

\* Line 480: one more message about the event's id has gone to the channel;
\* counted up to MaxAnnounced.
Announce(announced, event) ==
    LET id == Get(event, "id")
    IN  IF id \in DOMAIN announced /\ announced[id] < MaxAnnounced
        THEN [announced EXCEPT ![id] = @ + 1]
        ELSE announced

\* The locals of execute and of its stages before the run starts.
NoRun ==
    /\ resync = FALSE
    /\ max_retries = 0
    /\ attempt = 0
    /\ login_result = "none"
    /\ success = "none"
    /\ day = 1
    /\ all_events = <<>>
    /\ events_data = <<>>
    /\ existing_events = <<>>
    /\ events = <<>>
    /\ new_events = <<>>
    /\ all_events_for_storage = <<>>
    /\ index = 1
    /\ updated_events = <<>>
    /\ result = "none"
    /\ in_progress = <<>>
    /\ command = NoCommand
    /\ instance = NoInstance
    /\ month = 1
    /\ next_store = <<>>

Init ==
    /\ store \in InitialStores
    /\ upstream \in PortalBatches
    /\ pc = "idle"
    /\ session = NewSession
    /\ self_session = FALSE
    /\ obs = InitObs
    /\ NoRun

\* ------------------------------------------------------------------ execute
\* An execute that goes on to the fetch stage whatever authenticate_fiap said.
AfterAuthenticateAlwaysOn(ok) == "fetch"

\* Lines 72-76: where execute goes once authenticate_fiap has returned.
AfterAuthenticate(ok) == IF ok THEN "fetch" ELSE "authfail"

\* An execute whose except clause is missing.
ExecuteUncaught == "raised"

\* Lines 102-105: an exception that reaches execute (the retry count is no
\* number, the HTTP session cannot be created) is logged, the error
\* notification is attempted inside a try of its own, and False is returned.
ExecuteCaught == "false"

\* webhook.py 57-59: what sync_calendar returns for execute's outcome.
SyncCalendarResult(outcome) == IF outcome = "raised" THEN "false" ELSE outcome

\* A trigger (the scheduled task or the sync_calendar command) calls execute;
\* authenticate_fiap returns (False, None) at once when the credentials are
\* not configured, and otherwise builds a FIAPSession, enters it and calls
\* login with MAX_LOGIN_RETRIES.
\* An exception raised before that ends the run in the except clause.
TriggerWith(retries) ==
    /\ pc = "idle"
    /\ \E m \in retries, credentials \in BOOLEAN, raised \in BOOLEAN :
        IF raised
        THEN /\ max_retries' = 0
             /\ session' = NewSession
             /\ pc' = "done"
             /\ success' = "none"
             /\ result' = ExecuteCaught
        ELSE IF credentials
        THEN /\ max_retries' = m
             /\ session' = Enter(NewSession)
             /\ pc' = "login"
             /\ success' = "none"
             /\ UNCHANGED result
        ELSE /\ max_retries' = 0
             /\ session' = NewSession
             /\ pc' = AfterAuthenticate(FALSE)
             /\ success' = "false"
             /\ UNCHANGED result
    /\ attempt' = 0
    /\ login_result' = "none"
    /\ obs' = [obs EXCEPT !.calls = NoCalls, !.saw_success = FALSE,
                          !.fetch_ok = FALSE, !.fetching = NoFetchObs,
                          !.detailed = <<>>, !.last_write = "none",
                          !.fast_path = FALSE, !.at_start = store,
                          !.at_load = <<>>, !.second = obs.stable,
                          !.second_of_empty = obs.stable /\ obs.from_empty]
    /\ UNCHANGED <<store, upstream, hostVars, periodVars, resync, self_session, stageVars>>

\* execute under any MAX_LOGIN_RETRIES in bounds.
Trigger == TriggerWith(0..MaxLoginRetries)

\* FIAPSession.login: the RuntimeError of a session that was never entered,
\* the return of line 133 once the range is exhausted, or one attempt.  On a
\* closed transport the POST raises.
Login ==
    /\ pc = "login"
    /\ login_result = "none"
    /\ IF session.transport = "none"
       THEN /\ login_result' = "raised"
            /\ UNCHANGED <<attempt, session, obs>>
       ELSE IF ~LoopRuns(attempt + 1, max_retries)
       THEN /\ login_result' = "false"
            /\ UNCHANGED <<attempt, session, obs>>
       ELSE \E resp \in (IF session.transport = "closed" THEN {"exception"}
                         ELSE LoginResponses) :
            LET step == LoginStep(resp, attempt + 1, max_retries)
            IN  /\ attempt' = attempt + 1
                /\ login_result' = IF step \in {"true", "false", "raised"}
                                   THEN step ELSE "none"
                /\ session' = IF step = "true"
                              THEN [session EXCEPT !.sesskey = TRUE,
                                                   !.is_authenticated = TRUE]
                              ELSE session
                /\ obs' = [obs EXCEPT
                             !.saw_success = @ \/ IsLoginSuccess(resp),
                             !.waits = IF step = "wait" THEN @ + 1 ELSE @,
                             !.last_raised = resp = "exception"]
    /\ UNCHANGED <<store, upstream, hostVars, periodVars, pc, resync, max_retries, success,
                   self_session, stageVars, result>>

\* authenticate_fiap after login returned, and execute up to its first stage:
\* a failed login closes the session; a successful one is kept in
\* self.session.  login's arguments and counters end with the call.
AuthenticateReturn ==
    /\ pc = "login"
    /\ login_result \in {"true", "false"}
    /\ pc' = AfterAuthenticate(login_result = "true")
    /\ success' = login_result
    /\ session' = IF login_result = "true" THEN session ELSE Exit(session)
    /\ self_session' = IF login_result = "true" THEN TRUE ELSE self_session
    /\ max_retries' = 0
    /\ attempt' = 0
    /\ login_result' = "none"
    /\ obs' = [obs EXCEPT !.waits = 0, !.last_raised = FALSE]
    /\ UNCHANGED <<store, upstream, hostVars, periodVars, resync, stageVars, result>>

\* Lines 72-74: the auth-failure notification, then return False.
NotifyAuthFailure ==
    /\ pc = "authfail"
    /\ pc' = "done"
    /\ result' = "false"
    /\ \E delivery \in DeliveryOutcomes :
        obs' = [obs EXCEPT !.calls.auth_notice = @ + 1,
                           !.calls.auth_message = @ + AuthFailureMessages(delivery),
                           !.stable = FALSE]
    /\ UNCHANGED <<store, upstream, hostVars, periodVars, resync, loginVars, success, self_session,
                   stageVars>>

\* Lines 80-84: _fetch_calendar_events returned None (an exception inside it
\* is caught at lines 163-165), and execute returns False straight away.
FetchFailedGoesOn ==
    /\ pc' = "process"
    /\ events_data' = <<>>
    /\ UNCHANGED result

FetchFailed ==
    /\ pc' = "done"
    /\ result' = "false"
    /\ events_data' = <<>>

\* _fetch_calendar_events up to its first suspension after the fast path:
\* the single-day call, then either the per-day scan or the parsed events.
FetchPanel ==
    /\ pc = "fetch"
    /\ \E answer \in PanelResponses(upstream), r \in BOOLEAN :
        LET resp == IF self_session THEN ApiCall(session, answer)
                    ELSE [kind |-> "raise"]
            got == ExtractEvents(resp)
        IN  /\ resync' = r
            /\ obs' = [Count(obs, "fetch") EXCEPT
                          !.fast_path = resp.kind = "data" /\ ~NeedsFallback(resp, r),
                          !.fetch_ok = ~IsErrorResponse(resp),
                          !.fetching.fast_kind = resp.kind,
                          !.stable = FALSE]
            /\ IF resp.kind = "raise" THEN FetchFailed
               ELSE IF NeedsFallback(resp, r)
               THEN /\ pc' = "scan"
                    /\ UNCHANGED <<result, events_data>>
               ELSE IF got.ok
               THEN /\ pc' = "process"
                    /\ events_data' = got.events
                    /\ UNCHANGED result
               ELSE FetchFailed
    /\ UNCHANGED <<store, upstream, hostVars, periodVars, loginVars, success, self_session, scanVars,
                   processVars, index, updated_events>>

\* _fetch_monthly_panel_events: the call for one day of the month; after
\* the last day the accumulated list is what _fetch_calendar_events parses.
ScanDayFrom(responses) ==
    /\ pc = "scan"
    /\ \E answer \in responses :
        LET resp == ApiCall(session, answer)
            all == ScanOneDay(all_events, resp)
            failed == IsErrorResponse(resp)
            served == IdsOf(DayEvents(resp))
        IN  /\ all_events' = all
            /\ obs' = [Count(obs, "fetch") EXCEPT
                          !.fetch_ok = @ \/ ~failed,
                          !.fetching.fast_kind = "none",
                          !.fetching.scan_ids = IF failed THEN @ ELSE @ \cup served,
                          !.fetching.skipped = @ \/ failed,
                          !.fetching.richest =
                              IF failed THEN @
                              ELSE [id \in ScrapedIds |->
                                      Largest(SizesServed(DayEvents(resp), id), @[id])],
                          !.fetching.mixed =
                              @ \/ (~failed /\ \E id \in ScrapedIds :
                                      Cardinality(SizesServed(DayEvents(resp), id)) > 1),
                          !.fetching.after_skip =
                              @ \/ (obs.fetching.skipped /\ ~failed /\ served # {})]
            /\ day' = day + 1
            /\ IF day = DaysInMonth
               THEN /\ pc' = "process"
                    /\ events_data' = ExtractEvents(DataResponse(all)).events
               ELSE UNCHANGED <<pc, events_data>>
    /\ UNCHANGED <<store, upstream, hostVars, periodVars, resync, loginVars, success, self_session,
                   processVars, index, updated_events, result>>

\* The per-day scan of a run: the panel endpoint's answers for other days.
ScanDay == ScanDayFrom(DayResponses)

\* What the file system does to one read and to one write: both succeed
\* unless storage faults are part of the specification.
ReadOutcomes(faults) == IF faults THEN BOOLEAN ELSE {TRUE}

SaveOutcomes(faults) == IF faults THEN WriteOutcomes ELSE {"ok"}

\* _process_events: load, deduplicate, pick the new events, merge, save.
\* An empty event list returns [] before the store is touched.  With no new
\* event _fetch_event_details returns [] at once and execute goes to cleanup.
ProcessEventsAt(faults, rolls) ==
    /\ pc = "process"
    /\ IF events_data = <<>>
       THEN /\ pc' = "cleanup"
            /\ obs' = [obs EXCEPT !.fetching = NoFetchObs]
            /\ UNCHANGED <<store, periodVars, processVars>>
       ELSE \E readOk \in ReadOutcomes(faults), outcome \in SaveOutcomes(faults),
               roll \in rolls :
            LET existing == LoadExistingEvents(FileOf(month), readOk)
                unique == Deduplicate(events_data)
                fresh == FilterNew(unique, IdsOf(existing))
                merged == AllEventsForStorage(existing, unique)
                now == ClockAfter(month, roll)
                period == SavePeriod(month, now)
                saved == SaveEvents(FileOf(period), merged, outcome)
            IN  /\ existing_events' = existing
                /\ events' = unique
                /\ new_events' = fresh
                /\ all_events_for_storage' = merged
                /\ store' = IF period = 1 THEN saved ELSE store
                /\ next_store' = IF period = 2 THEN saved ELSE next_store
                /\ month' = now
                /\ obs' = [Count(obs, "write") EXCEPT
                              !.at_load = FileOf(month), !.fetching = NoFetchObs,
                              !.last_write = WriteResult(outcome)]
                /\ pc' = IF fresh = <<>> THEN "cleanup" ELSE "enrich"
    /\ index' = 1
    /\ updated_events' = <<>>
    /\ UNCHANGED <<upstream, hostVars, resync, loginVars, success, self_session, scanVars,
                   events_data, result>>

\* _process_events of a run that does not span a month end.
ProcessEvents(faults) == ProcessEventsAt(faults, {FALSE})

\* _fetch_event_details: one pass of its loop, a detail call unless the
\* event lacks an id or a type.
FetchDetailFrom(responses) ==
    /\ pc = "enrich"
    /\ LET event == new_events[index]
       IN  IF SkipsDetail(event)
           THEN /\ updated_events' = Append(updated_events, event)
                /\ obs' = [obs EXCEPT !.detailed = Append(@, FALSE),
                                      !.unslept = index < Len(new_events) /\ @]
           ELSE \E answer \in responses :
                LET resp == ApiCall(session, answer)
                IN  /\ updated_events' = AfterDetail(updated_events, event, resp)
                    /\ obs' = [Count(obs, "detail") EXCEPT
                                  !.detailed = Append(@, CarriesDetail(resp)),
                                  !.unslept = index < Len(new_events)
                                                 /\ ~SleepsAfter(resp)]
    /\ index' = index + 1
    /\ pc' = IF index = Len(new_events) THEN "update" ELSE "enrich"
    /\ UNCHANGED <<store, upstream, hostVars, periodVars, resync, loginVars, success, self_session,
                   scanVars, events_data, processVars, result>>

FetchDetail == FetchDetailFrom(DetailResponses)

\* _update_stored_events, then the channel lookup of
\* _send_event_notifications: without a channel nothing is announced.
UpdateStoredEventsAt(faults, rolls) ==
    /\ pc = "update"
    /\ \E readOk \in ReadOutcomes(faults), outcome \in SaveOutcomes(faults),
          channel \in BOOLEAN, roll \in rolls :
        LET existing == LoadExistingEvents(FileOf(month), readOk)
            now == ClockAfter(month, roll)
            period == SavePeriod(month, now)
            saved == SaveEvents(FileOf(period),
                                ReplaceUpdated(existing, updated_events), outcome)
        IN  /\ store' = IF period = 1 THEN saved ELSE store
            /\ next_store' = IF period = 2 THEN saved ELSE next_store
            /\ month' = now
            /\ pc' = IF channel THEN "notify" ELSE "cleanup"
            /\ obs' = [Count(obs, "write") EXCEPT
                          !.last_write = WriteResult(outcome)]
    /\ index' = 1
    /\ UNCHANGED <<upstream, hostVars, resync, loginVars, success, self_session, scanVars,
                   events_data, processVars, updated_events, result>>

\* _update_stored_events of a run that does not span a month end.
UpdateStoredEvents(faults) == UpdateStoredEventsAt(faults, {FALSE})

\* _send_event_notifications: one pass of its loop; an exception while the
\* embed is built or sent is caught outside the loop (line 488) and ends it.
NotifyEventRec(counting) ==
    /\ pc = "notify"
    /\ \E sent \in BOOLEAN :
        IF sent
        THEN /\ obs' = [Count(obs, "announce") EXCEPT
                          !.announced = IF counting
                                        THEN Announce(@, updated_events[index])
                                        ELSE @]
             /\ index' = index + 1
             /\ pc' = IF index = Len(updated_events) THEN "cleanup" ELSE "notify"
        ELSE /\ obs' = Count(obs, "announce_error")
             /\ pc' = "cleanup"
             /\ UNCHANGED index
    /\ UNCHANGED <<store, upstream, hostVars, periodVars, resync, loginVars, success, self_session,
                   scanVars, events_data, processVars, updated_events, result>>

\* _send_event_notifications, with no record kept of what was announced in
\* earlier runs.
NotifyEvent == NotifyEventRec(FALSE)

\* All records carry a truthy id and no two share one.
DistinctIds(batch) ==
    /\ \A i \in 1..Len(batch) : Truthy(Get(batch[i], "id"))
    /\ \A i, j \in 1..Len(batch) : i # j => Get(batch[i], "id") # Get(batch[j], "id")

\* _cleanup, then return True.
Cleanup ==
    /\ pc = "cleanup"
    /\ session' = IF self_session THEN Exit(session) ELSE session
    /\ self_session' = FALSE
    /\ pc' = "done"
    /\ result' = "true"
    /\ obs' = [obs EXCEPT
                 !.stable = obs.fast_path,
                 !.from_empty = obs.at_start = <<>> /\ DistinctIds(events_data)]
    /\ UNCHANGED <<store, upstream, hostVars, periodVars, resync, max_retries, attempt, login_result,
                   success, stageVars>>

\* execute has returned to its caller: its locals are gone, the fields of
\* the webhook object stay.
Return ==
    /\ pc = "done"
    /\ pc' = "idle"
    /\ resync' = FALSE
    /\ max_retries' = 0
    /\ attempt' = 0
    /\ login_result' = "none"
    /\ success' = "none"
    /\ day' = 1
    /\ all_events' = <<>>
    /\ events_data' = <<>>
    /\ existing_events' = <<>>
    /\ events' = <<>>
    /\ new_events' = <<>>
    /\ all_events_for_storage' = <<>>
    /\ index' = 1
    /\ updated_events' = <<>>
    /\ result' = "none"
    /\ session' = IF self_session THEN session ELSE NewSession
    /\ obs' = [obs EXCEPT !.calls = NoCalls, !.saw_success = FALSE,
                          !.fetch_ok = FALSE, !.fetching = NoFetchObs,
                          !.detailed = <<>>, !.last_write = "none",
                          !.fast_path = FALSE, !.at_start = <<>>,
                          !.at_load = <<>>, !.second = FALSE,
                          !.second_of_empty = FALSE]
    /\ UNCHANGED <<store, upstream, hostVars, periodVars, self_session>>

\* -------------------------------------------------------------- environment
\* The portal publishes another list of events for today.
ChangeUpstream ==
    /\ pc = "idle"
    /\ upstream' \in PortalBatches \ {upstream}
    /\ obs' = [obs EXCEPT !.stable = FALSE]
    /\ UNCHANGED <<hostVars, periodVars, store, pc, resync, loginVars, success, self_session,
                   stageVars, result>>

\* ------------------------------------------------------------ specifications
StagesNext(faults) ==
    \/ Login
    \/ AuthenticateReturn
    \/ NotifyAuthFailure
    \/ FetchPanel
    \/ ScanDay
    \/ ProcessEvents(faults)
    \/ FetchDetail
    \/ UpdateStoredEvents(faults)
    \/ NotifyEvent
    \/ Cleanup
    \/ Return

RunNext(faults) ==
    \/ Trigger
    \/ StagesNext(faults)

Next ==
    \/ RunNext(FALSE)
    \/ ChangeUpstream

\* The engine with a file system that works.
Spec == Init /\ [][Next]_vars

NextStorageFaults ==
    \/ RunNext(TRUE)
    \/ ChangeUpstream

\* The engine with a file system whose reads and writes can fail.
SpecStorageFaults == Init /\ [][NextStorageFaults]_vars

\* ------------------------------------------- FIAPSession under any caller
\* A caller enters the session object (__aenter__).
SessionEnter ==
    /\ pc = "idle"
    /\ session.transport # "open"
    /\ session' = Enter(session)
    /\ UNCHANGED <<store, upstream, hostVars, periodVars, pc, resync, max_retries, attempt,
                   login_result, success, self_session, stageVars, result, obs>>

\* A caller leaves the session object (__aexit__), also while a login of
\* another coroutine is suspended in its POST or in its backoff.
SessionExit ==
    /\ session.transport = "open"
    /\ session' = Exit(session)
    /\ UNCHANGED <<store, upstream, hostVars, periodVars, pc, resync, max_retries, attempt,
                   login_result, success, self_session, stageVars, result, obs>>

\* A caller calls login(username, password, max_retries).
LoginCall ==
    /\ pc = "idle"
    /\ pc' = "login"
    /\ max_retries' \in 0..MaxLoginRetries
    /\ attempt' = 0
    /\ login_result' = "none"
    /\ obs' = [obs EXCEPT !.saw_success = FALSE, !.waits = 0, !.last_raised = FALSE]
    /\ UNCHANGED <<store, upstream, hostVars, periodVars, resync, success, session, self_session,
                   stageVars, result>>

\* login is over: the caller has its boolean, or the RuntimeError.
LoginReturn ==
    /\ pc = "login"
    /\ login_result # "none"
    /\ pc' = "idle"
    /\ max_retries' = 0
    /\ attempt' = 0
    /\ login_result' = "none"
    /\ obs' = [obs EXCEPT !.saw_success = FALSE, !.waits = 0, !.last_raised = FALSE]
    /\ UNCHANGED <<store, upstream, hostVars, periodVars, resync, success, session, self_session,
                   stageVars, result>>

InitSession ==
    /\ store = <<>>
    /\ upstream = <<>>
    /\ pc = "idle"
    /\ session = NewSession
    /\ self_session = FALSE
    /\ obs = InitObs
    /\ NoRun

NextSession ==
    \/ SessionEnter
    \/ SessionExit
    \/ LoginCall
    \/ Login
    \/ LoginReturn

\* One FIAPSession object driven by an arbitrary caller.
SpecSession == InitSession /\ [][NextSession]_vars

\* ------------------------------------------ _process_events on any input
\* Events a period's file can hold: scraped ones, enriched ones, a manual one.
StoredPool ==
    PortalPool \cup {DictUpdate(event, DetailData) : event \in PortalPool}
               \cup {ManualEvent}

\* The files _process_events can find: at most one record per id.
ProcessStores == {file \in SeqsUpTo(StoredPool, MaxStored) : DistinctIds(file)}

\* execute has authenticated and fetched, and is about to call
\* _process_events with a batch the fast path served.
InitProcess ==
    /\ store \in ProcessStores
    /\ upstream \in Batches
    /\ events_data = upstream
    /\ pc = "process"
    /\ success = "true"
    /\ session = [transport |-> "open", sesskey |-> TRUE, is_authenticated |-> TRUE]
    /\ self_session = TRUE
    /\ obs = [InitObs EXCEPT !.calls.fetch = 1, !.saw_success = TRUE,
                             !.fetch_ok = TRUE, !.fetching.fast_kind = "data",
                             !.fast_path = TRUE, !.at_start = store]
    /\ resync = FALSE
    /\ max_retries = 0
    /\ attempt = 0
    /\ login_result = "none"
    /\ day = 1
    /\ all_events = <<>>
    /\ existing_events = <<>>
    /\ events = <<>>
    /\ new_events = <<>>
    /\ all_events_for_storage = <<>>
    /\ index = 1
    /\ updated_events = <<>>
    /\ result = "none"
    /\ in_progress = <<>>
    /\ command = NoCommand
    /\ instance = NoInstance
    /\ month = 1
    /\ next_store = <<>>

NextProcess == ProcessEvents(FALSE)

\* The merge stage alone, on every stored file and fetched batch in bounds.
SpecProcess == InitProcess /\ [][NextProcess]_vars

\* ------------------------------------------- runs and manual additions
\* add_manual_event, lines 320-333: load, look for the id, append, save.  The
\* three steps run without a suspension in between, so the addition falls
\* between two store operations of the engine: outside a run, which is also
\* what an addition before the merge or after the write-back of a run
\* amounts to, or between the merge and the write-back of a run.
AddManualEvent ==
    /\ pc \in {"idle", "update"}
    /\ command.pc = "none"
    /\ LET existing_list == LoadExistingEvents(store, TRUE)
           appended == AppendManual(existing_list, ManualEvent)
       IN  /\ store' = SaveEvents(store, appended, "ok")
           /\ \E channel \in BOOLEAN :
                 command' = IF channel /\ appended # existing_list
                            THEN [pc |-> "announce", existing_events |-> appended]
                            ELSE NoCommand
    /\ UNCHANGED <<upstream, in_progress, instance, periodVars, pc, resync, loginVars,
                   success, self_session, stageVars, result, obs>>

\* Lines 343-345: the fields the announcement adds to the manual event.
Announced(event) == DictUpdate(event, [discord_message_id |-> 1])

\* add_manual_event, lines 337-350: channel.send has returned or raised;
\* after a send that returned, the list loaded before line 333, with the
\* manual event replaced by its announced version, is saved again.
AddManualAnnounced ==
    /\ pc \in {"idle", "update"}
    /\ command.pc = "announce"
    /\ \E sent \in BOOLEAN :
          store' = IF sent
                   THEN SaveEvents(store,
                                   ReplaceAt(command.existing_events,
                                             FirstIndexOf(command.existing_events,
                                                          ManualEvent.id),
                                             Announced(ManualEvent)),
                                   "ok")
                   ELSE store
    /\ command' = NoCommand
    /\ UNCHANGED <<upstream, in_progress, instance, periodVars, pc, resync, loginVars,
                   success, self_session, stageVars, result, obs>>

InitManual ==
    /\ Init
    /\ store = <<>>

NextManual ==
    \/ TriggerWith({1})
    \/ StagesNext(FALSE)
    \/ AddManualEvent
    \/ AddManualAnnounced

\* The engine from an empty store, with one login attempt per run, a fast
\* path that serves the same batch in every run (the per-day scan serves any)
\* and manual additions at any moment.
SpecManual == InitManual /\ [][NextManual]_vars

\* --------------------------------------- FIAPCalendarAPI under any caller
\* A FIAPSession is a plain object: every combination of its fields is a
\* session a caller can hand to FIAPCalendarAPI.
AllSessions ==
    [transport : {"none", "open", "closed"}, sesskey : BOOLEAN,
     is_authenticated : BOOLEAN]

ApiOperations == {"range", "panel", "event"}

\* FIAPCalendarAPI(session)
ApiConstruct ==
    /\ pc = "idle"
    /\ ~obs.api.built
    /\ obs' = [obs EXCEPT !.api.op = "construct", !.api.post = "none",
                          !.api.on = session,
                          !.api.outcome = Construct(session),
                          !.api.built = Construct(session) = "built"]
    /\ UNCHANGED <<store, upstream, hostVars, periodVars, pc, resync, loginVars, success,
                   self_session, stageVars, result>>

\* get_calendar_events, get_calendar_panel_events or get_calendar_event
\* on the object the constructor returned.
ApiOperation ==
    /\ pc = "idle"
    /\ obs.api.built
    /\ obs.api.calls < MaxApiCalls
    /\ \E op \in ApiOperations, outcome \in PostOutcomes :
        LET resp == ApiCall(session, PostAnswer(outcome))
        IN  obs' = [obs EXCEPT
                       !.api.op = op,
                       !.api.on = session,
                       !.api.post = IF SendsPost(session) THEN outcome.post ELSE "none",
                       !.api.outcome = OutcomeOf(resp),
                       !.api.calls = @ + 1,
                       !.api.posts = IF SendsPost(session) THEN @ + 1 ELSE @]
    /\ UNCHANGED <<store, upstream, hostVars, periodVars, pc, resync, loginVars, success,
                   self_session, stageVars, result>>

InitApi ==
    /\ store = <<>>
    /\ upstream = <<>>
    /\ pc = "idle"
    /\ session \in AllSessions
    /\ self_session = FALSE
    /\ obs = InitObs
    /\ NoRun

NextApi ==
    \/ ApiConstruct
    \/ ApiOperation
    \/ SessionEnter
    \/ SessionExit

\* One FIAPCalendarAPI driven by an arbitrary caller, who also opens and
\* closes the session's transport between the calls.
SpecApi == InitApi /\ [][NextApi]_vars

\* ------------------------------------- the per-day scan on any answers
\* What a day's call can give the scan: an error value, an unusable answer,
\* a single item, any event list, or an exception in the call or while its
\* answer is read.
ScanResponses ==
    OtherResponses \cup {DataResponse(b) : b \in Batches} \cup {[kind |-> "raise"]}

\* The fast path has returned an error value and the scan is about to start,
\* whatever the period's file holds and whatever the portal serves for today.
InitScan ==
    /\ store \in InitialStores
    /\ upstream \in PortalBatches
    /\ pc = "scan"
    /\ success = "true"
    /\ session = [transport |-> "open", sesskey |-> TRUE, is_authenticated |-> TRUE]
    /\ self_session = TRUE
    /\ obs = [InitObs EXCEPT !.calls.fetch = 1, !.saw_success = TRUE,
                             !.fetching.fast_kind = "api_error"]
    /\ resync = FALSE
    /\ max_retries = 0
    /\ attempt = 0
    /\ login_result = "none"
    /\ day = 1
    /\ all_events = <<>>
    /\ events_data = <<>>
    /\ existing_events = <<>>
    /\ events = <<>>
    /\ new_events = <<>>
    /\ all_events_for_storage = <<>>
    /\ index = 1
    /\ updated_events = <<>>
    /\ result = "none"
    /\ in_progress = <<>>
    /\ command = NoCommand
    /\ instance = NoInstance
    /\ month = 1
    /\ next_store = <<>>

NextScan == ScanDayFrom(ScanResponses)

\* _fetch_monthly_panel_events alone, on every sequence of day answers.
SpecScan == InitScan /\ [][NextScan]_vars

\* ------------------------------------------------- announcements over runs
\* execute is called again after a run that ended, authenticates and is
\* served the same batch on the fast path: lines 62-86 up to the call of
\* _process_events.  The locals are new; the file and the channel's history
\* are what the earlier runs left.
RunAgain ==
    /\ pc = "done"
    /\ pc' = "process"
    /\ events_data' = upstream
    /\ success' = "true"
    /\ session' = [transport |-> "open", sesskey |-> TRUE, is_authenticated |-> TRUE]
    /\ self_session' = TRUE
    /\ obs' = [InitObs EXCEPT !.calls.fetch = 1, !.saw_success = TRUE,
                              !.fetch_ok = TRUE, !.fetching.fast_kind = "data",
                              !.fast_path = TRUE, !.at_start = store,
                              !.announced = obs.announced]
    /\ existing_events' = <<>>
    /\ events' = <<>>
    /\ new_events' = <<>>
    /\ all_events_for_storage' = <<>>
    /\ index' = 1
    /\ updated_events' = <<>>
    /\ result' = "none"
    /\ UNCHANGED <<store, upstream, hostVars, periodVars, resync, max_retries,
                   attempt, login_result, scanVars>>

\* The first run finds an empty file and a batch of portal events.
InitAnnounce ==
    /\ InitProcess
    /\ store = <<>>
    /\ upstream \in PortalBatches

NextAnnounce(faults) ==
    \/ ProcessEvents(faults)
    \/ FetchDetail
    \/ UpdateStoredEvents(faults)
    \/ NotifyEventRec(TRUE)
    \/ Cleanup
    \/ RunAgain

\* Run after run on the same batch, with a file system whose reads and
\* writes can fail, and a count of the messages sent per id.
SpecAnnounce == InitAnnounce /\ [][NextAnnounce(TRUE)]_vars

\* The channel is found in the end.
ChannelFound == UpdateStoredEvents(FALSE) /\ pc' = "notify"

\* A message is sent in the end.
MessageSent ==
    NotifyEventRec(TRUE) /\ obs'.calls.announce = obs.calls.announce + 1

\* Runs keep being triggered on the same batch with a file system that
\* works; a channel lookup or a send that is tried again and again succeeds
\* at some point.
SpecAnnounceFair ==
    /\ InitAnnounce
    /\ [][NextAnnounce(FALSE)]_vars
    /\ WF_vars(NextAnnounce(FALSE))
    /\ SF_vars(ChannelFound)
    /\ SF_vars(MessageSent)

\* ------------------------------------------------------------ month end
InitPeriod == InitProcess

NextPeriod ==
    \/ ProcessEventsAt(FALSE, BOOLEAN)
    \/ FetchDetail
    \/ UpdateStoredEventsAt(FALSE, BOOLEAN)

\* The stages of a run that touch the store, with a clock that can pass
\* the end of the month between a load and the save that follows it.
SpecPeriod == InitPeriod /\ [][NextPeriod]_vars

\* ------------------------------------------------------------- enrichment
\* Detail data that names an id of its own, as a portal record does.
DetailWithId == [id |-> "e2", local |-> "https://teams/x"]

\* What the detail call can answer: the kinds of DetailResponses, and detail
\* data that carries an 'id' key.
EnrichResponses == DetailResponses \cup {DataResponse(DetailWithId)}

\* The records _fetch_event_details can be handed: with id and type, with
\* only one of the two, with neither.
NewPool ==
    { [id |-> "e1", type |-> "Live"],
      [id |-> "e1", type |-> "Live", content |-> "aula"],
      [id |-> "e2", type |-> "Live"],
      [id |-> "e2"],
      [type |-> "Live"],
      [content |-> "aula"] }

WithId(batch) == SelectSeq(batch, LAMBDA event : Truthy(Get(event, "id")))

\* Non-empty lists in which no id occurs twice, as _process_events returns.
NewBatches ==
    {b \in SeqsUpTo(NewPool, MaxBatch) :
        Len(b) > 0 /\ DistinctIds(WithId(b))}

\* The file _process_events has left behind: what was stored before, then
\* the new events that have an id.
EnrichStores(new) ==
    {prefix \o WithId(new) :
        prefix \in {p \in {<<>>, <<ManualEvent>>, <<[id |-> "e2", type |-> "Live"]>>} :
                        IdsOf(p) \cap IdsOf(new) = {}}}

\* execute has saved the merged list and is about to call
\* _fetch_event_details with the new events.
InitEnrich ==
    /\ new_events \in NewBatches
    /\ store \in EnrichStores(new_events)
    /\ upstream = <<>>
    /\ pc = "enrich"
    /\ success = "true"
    /\ session = [transport |-> "open", sesskey |-> TRUE, is_authenticated |-> TRUE]
    /\ self_session = TRUE
    /\ obs = [InitObs EXCEPT !.calls.fetch = 1, !.calls.write = 1,
                             !.saw_success = TRUE, !.fetch_ok = TRUE,
                             !.last_write = "ok"]
    /\ resync = FALSE
    /\ max_retries = 0
    /\ attempt = 0
    /\ login_result = "none"
    /\ day = 1
    /\ all_events = <<>>
    /\ events_data = <<>>
    /\ existing_events = <<>>
    /\ events = <<>>
    /\ all_events_for_storage = store
    /\ index = 1
    /\ updated_events = <<>>
    /\ result = "none"
    /\ in_progress = <<>>
    /\ command = NoCommand
    /\ instance = NoInstance
    /\ month = 1
    /\ next_store = <<>>

NextEnrich ==
    \/ FetchDetailFrom(EnrichResponses)
    \/ UpdateStoredEvents(FALSE)

\* _fetch_event_details alone, on every list of events and every sequence
\* of detail answers in bounds.
SpecEnrich == InitEnrich /\ [][NextEnrich]_vars

\* ---------------------------------------------------------- trigger layer
\* The places a sync is started from: main.py's sync_calendar_task and the
\* cog's manual sync command.
Sources == {"scheduled", "manual"}

\* The awaits of execute, in order: a run is suspended at one of them while
\* the event loop serves other triggers.
RunStages ==
    <<"authenticate", "fetch", "process", "enrich", "update", "notify", "cleanup">>

\* tasks.loop awaits the body before it schedules the next iteration, so the
\* scheduled task never overlaps itself; a command invocation is a task of
\* its own and waits for nothing.
MayStart(source) ==
    source = "scheduled" => \A i \in 1..Len(in_progress) : in_progress[i].source # "scheduled"

RemoveAt(s, i) == SubSeq(s, 1, i - 1) \o SubSeq(s, i + 1, Len(s))

\* A name for the FIAPSession the new run will create.
NewId ==
    CHOOSE k \in 1..MaxRuns :
        /\ \A i \in 1..Len(in_progress) : in_progress[i].id # k
        /\ \A j \in 1..(k - 1) : \E i \in 1..Len(in_progress) : in_progress[i].id = j

\* WebhookManager.sync_calendar: looks up the one CalendarSyncWebhook and
\* awaits its execute, whatever else is under way on that instance.
SyncCalendar(source) ==
    /\ Len(in_progress) < MaxRuns
    /\ MayStart(source)
    /\ in_progress' = Append(in_progress,
                             [source |-> source, stage |-> 1, id |-> NewId])
    /\ UNCHANGED <<store, upstream, command, periodVars, instance, pc, resync, loginVars,
                   success, self_session, stageVars, result, obs>>

\* Lines 76-77: the run that has authenticated stores its session and an
\* API object over it in the fields of the webhook.
Attach(id) ==
    [instance EXCEPT !.session = id, !.api = id, !.transports[id] = "open"]

\* A run under way passes an await and goes on to its next stage; on its
\* way from authenticate to fetch it attaches its session.
RunAdvance(i) ==
    /\ in_progress[i].stage < Len(RunStages)
    /\ in_progress' = [in_progress EXCEPT ![i].stage = @ + 1]
    /\ instance' = IF in_progress[i].stage = 1 THEN Attach(in_progress[i].id)
                   ELSE instance
    /\ UNCHANGED <<store, upstream, command, periodVars, pc, resync, loginVars, success,
                   self_session, stageVars, result, obs>>

\* _cleanup, lines 619-621: whatever session self.session holds is closed
\* and the field is cleared; self.api is left as it is.
CleanedUp ==
    IF instance.session = 0 THEN instance
    ELSE [instance EXCEPT !.transports[instance.session] = "closed",
                          !.session = 0]

\* execute returns: from authenticate or fetch with false and without
\* _cleanup, or from the last stage after _cleanup.
RunReturn(i) ==
    /\ in_progress[i].stage \in {1, 2, Len(RunStages)}
    /\ in_progress' = RemoveAt(in_progress, i)
    /\ instance' = IF in_progress[i].stage = Len(RunStages) THEN CleanedUp
                   ELSE instance
    /\ UNCHANGED <<store, upstream, command, periodVars, pc, resync, loginVars, success,
                   self_session, stageVars, result, obs>>

InitTriggers == Init

NextTriggers ==
    \/ \E source \in Sources : SyncCalendar(source)
    \/ \E i \in 1..Len(in_progress) : RunAdvance(i)
    \/ \E i \in 1..Len(in_progress) : RunReturn(i)

\* The triggers alone: which execute calls are under way at the same time.
SpecTriggers == InitTriggers /\ [][NextTriggers]_vars

\* ------------------------------------------------------------- properties
\* _process_events of the current run has loaded, merged and saved.
AfterProcess ==
    /\ pc \in {"enrich", "update", "notify", "cleanup", "done"}
    /\ obs.calls.write > 0

IsManual(event) == "is_manual" \in DOMAIN event /\ event["is_manual"] = TRUE

\* C1: when a run completes right after a run that completed on the same
\* batch of the fast path, its new-event set is empty and the store is,
\* record for record and field for field, what the first run left.
C1_SecondRunChangesNothing ==
    (pc = "done" /\ result = "true" /\ obs.second /\ obs.fast_path)
        => (new_events = <<>> /\ store = obs.at_start)

\* C2: every id that was in the period's store when a run was triggered is
\* still in the store at every later point of that run, whatever the outcome
\* of the run and of its reads and writes.
C2_StoredIdsKept ==
    pc # "idle" => IdsOf(obs.at_start) \subseteq IdsOf(store)

\* C3: once the run has loaded the store, the list _process_events returns
\* holds, exactly once, every fetched id that was not in the store when the
\* run loaded it, holds no other record, and each of its records is one of
\* the fetched batch; the known fetched ids are in the list handed to the
\* save, and only the returned records go on to the detail calls and to the
\* announcements.
C3_NewEventsExact ==
    (AfterProcess /\ existing_events = obs.at_load) =>
        /\ \A id \in IdsOf(events_data) \ IdsOf(obs.at_load) :
              Cardinality({k \in 1..Len(new_events) :
                              Get(new_events[k], "id") = id}) = 1
        /\ \A k \in 1..Len(new_events) :
              /\ Truthy(Get(new_events[k], "id"))
              /\ Get(new_events[k], "id") \notin IdsOf(obs.at_load)
              /\ new_events[k] \in Range(events_data)
        /\ IdsOf(events_data) \subseteq IdsOf(all_events_for_storage)
        /\ Len(updated_events) <= Len(new_events)
        /\ \A k \in 1..Len(updated_events) :
              Get(updated_events[k], "id") = Get(new_events[k], "id")
        /\ obs.calls.detail <= Len(new_events)
        /\ obs.calls.announce <= Len(new_events)

\* A run has merged a batch with a known id and a new one.
C3_Witness ==
    /\ pc = "enrich"
    /\ existing_events = obs.at_load
    /\ new_events # <<>>
    /\ IdsOf(events_data) \cap IdsOf(obs.at_load) # {}

\* C4: a run that starts from an empty store and gets a batch of distinct ids
\* from the day fetch ends with one stored record per fetched id and a new
\* set of that size; the run that follows on the same payload returns an
\* empty new set and leaves the number of stored records as it was.
C4_FromEmptyThenRepeat ==
    /\ (pc = "done" /\ result = "true" /\ obs.fast_path
            /\ obs.at_start = <<>> /\ DistinctIds(events_data))
        => /\ Len(store) = Len(events_data)
           /\ IdsOf(store) = IdsOf(events_data)
           /\ DistinctIds(store)
           /\ Len(new_events) = Len(events_data)
    /\ (pc = "done" /\ result = "true" /\ obs.fast_path /\ obs.second_of_empty)
        => /\ Len(new_events) = 0
           /\ Len(store) = Len(obs.at_start)
           /\ Len(store) = Len(events_data)

\* The second run on a payload of two events has completed.
C4_Witness ==
    /\ pc = "done"
    /\ result = "true"
    /\ obs.fast_path
    /\ obs.second_of_empty
    /\ Len(events_data) = 2

\* C5: after the deduplication of a fetched batch, every id of the batch has
\* exactly one record, and that record is the earliest record of the batch
\* among those of its id with the most fields: a later record wins only with
\* strictly more fields, and on a tie the earliest occurrence is kept.
C5_DedupKeepsMostComplete ==
    pc # "process" =>
        /\ \A k \in 1..Len(events) : Truthy(Get(events[k], "id"))
        /\ \A id \in IdsOf(events_data) :
              \E k \in 1..Len(events), j \in 1..Len(events_data) :
                  /\ Get(events[k], "id") = id
                  /\ \A other \in 1..Len(events) :
                        Get(events[other], "id") = id => other = k
                  /\ Get(events_data[j], "id") = id
                  /\ events[k] = events_data[j]
                  /\ \A i \in 1..Len(events_data) :
                        Get(events_data[i], "id") = id =>
                            /\ FieldCount(events_data[i]) <= FieldCount(events_data[j])
                            /\ i < j => FieldCount(events_data[i]) < FieldCount(events_data[j])

\* A batch of two records of one id, the later one with more fields, has
\* been deduplicated to the later record.
C5_Witness ==
    /\ pc # "process"
    /\ Len(events_data) = 2
    /\ Get(events_data[1], "id") = Get(events_data[2], "id")
    /\ FieldCount(events_data[1]) < FieldCount(events_data[2])
    /\ events = <<events_data[2]>>

\* C6: when a fetched record has the id of a stored record, the list the
\* merge saves holds under that id a record with every field the stored
\* record had.
C6_MergeKeepsStoredFields ==
    AfterProcess =>
        \A i \in 1..Len(existing_events) :
            LET stored == existing_events[i]
            IN  (Truthy(Get(stored, "id")) /\ Get(stored, "id") \in IdsOf(events)) =>
                    \E k \in 1..Len(all_events_for_storage) :
                        /\ Get(all_events_for_storage[k], "id") = Get(stored, "id")
                        /\ DOMAIN stored \subseteq DOMAIN all_events_for_storage[k]

\* C7: a manual event that was in the store when a run was triggered is in
\* the store, unchanged, at every later point of that run.
C7_ManualEventsUntouched ==
    pc # "idle" =>
        \A i \in 1..Len(obs.at_start) :
            IsManual(obs.at_start[i]) => obs.at_start[i] \in Range(store)

\* C8: login makes at most max_retries attempts; it goes on only while no
\* attempt has met the success condition and returns true exactly when one
\* has; it returns false only after max_retries attempts; and a run whose
\* authentication failed writes nothing to the store.
C8_LoginRetryBoundary ==
    /\ attempt <= max_retries
    /\ (pc = "login" /\ login_result = "none") => ~obs.saw_success
    /\ pc = "login" => (login_result = "true" <=> obs.saw_success)
    /\ (pc = "login" /\ login_result = "false") => attempt = max_retries
    /\ success = "false" => (obs.calls.write = 0 /\ store = obs.at_start)

\* Two transport errors, then the third and last attempt succeeds.
C8_Witness ==
    /\ pc = "login"
    /\ login_result = "true"
    /\ max_retries = 3
    /\ attempt = 3
    /\ obs.waits = 2

\* C9 as stated: login never raises to its caller.
C9_LoginNeverRaises == login_result # "raised"

\* C9: login raises to its caller only on a session object that was never
\* entered, and then before any attempt; on a session that was entered, open
\* or closed since, the caller gets a boolean.
C9_LoginRaisesOnlyUnentered ==
    /\ login_result = "raised" => (session.transport = "none" /\ attempt = 0)
    /\ (pc = "login" /\ session.transport = "none" /\ login_result # "none")
            => login_result = "raised"
    /\ (pc = "login" /\ session.transport # "none")
            => login_result \in {"none", "true", "false"}

\* login on a session closed under it: every attempt raised inside, and the
\* caller got false.
C9_Witness ==
    /\ pc = "login"
    /\ session.transport = "closed"
    /\ login_result = "false"
    /\ max_retries > 0
    /\ attempt = max_retries

\* C10: a run whose authentication failed calls the auth-failure notification
\* exactly once, which sends at most one message, returns false, and makes
\* no upstream fetch, no detail call, no store write and no announcement.
C10_AuthFailureAborts ==
    success = "false" =>
        /\ pc \in {"authfail", "done"}
        /\ obs.calls.fetch = 0
        /\ obs.calls.detail = 0
        /\ obs.calls.write = 0
        /\ obs.calls.announce = 0
        /\ store = obs.at_start
        /\ obs.calls.auth_message <= obs.calls.auth_notice
        /\ pc = "authfail" => (obs.calls.auth_notice = 0 /\ result = "none")
        /\ pc = "done" => (obs.calls.auth_notice = 1 /\ result = "false")

\* A run has returned false after its one auth-failure notification was sent.
C10_Witness ==
    /\ success = "false"
    /\ pc = "done"
    /\ result = "false"
    /\ obs.calls.auth_notice = 1
    /\ obs.calls.auth_message = 1

\* C11: when execute has returned, on whatever path, the transport session
\* that was opened for the run is closed.
C11_SessionClosedOnReturn ==
    pc = "done" => session.transport # "open"

\* C12: execute returns true only when authentication succeeded and some
\* fetch call of the run, the fast path or a day of the scan, returned a
\* response that was not an error.
C12_TrueOnlyAfterSuccessfulFetch ==
    (pc = "done" /\ result = "true") => (success = "true" /\ obs.fetch_ok)

\* C13: every new event is in the list _fetch_event_details returns, in
\* order: with the detail fields merged in when its own detail response
\* carried them, and as the base record when its detail call failed, whatever
\* happened to the other events; the whole list is written back to the
\* store, and the run returns true.
C13_EnrichmentNonFatal ==
    LET n == Len(updated_events)
    IN  /\ Len(obs.detailed) = n
        /\ pc = "enrich" => n = index - 1
        /\ (pc \in {"update", "notify", "cleanup", "done"} /\ new_events # <<>>)
              => n = Len(new_events)
        /\ \A i \in 1..n :
              /\ i <= Len(new_events)
              /\ updated_events[i] =
                    IF obs.detailed[i] THEN DictUpdate(new_events[i], DetailData)
                    ELSE new_events[i]
        /\ (pc \in {"notify", "cleanup", "done"} /\ new_events # <<>>)
              => \A i \in 1..n : updated_events[i] \in Range(store)
        /\ (pc = "done" /\ new_events # <<>>) => result = "true"

\* A run with two new events has returned true: the detail call of the first
\* failed, the second was enriched.
C13_Witness ==
    /\ pc = "done"
    /\ result = "true"
    /\ obs.calls.detail = 2
    /\ obs.detailed = <<FALSE, TRUE>>
    /\ Len(updated_events) = 2

C15_RangeFetchBeforeScan ==
    pc = "scan" => obs.calls.range >= 1

\* C16: the per-day scan makes one call for every day of the month whatever
\* the earlier days gave; a day that fails adds nothing and takes nothing
\* away; and the list the scan hands on holds exactly the ids served by the
\* days that did not fail, each under one record.
C16_ScanSkipsFailedDays ==
    /\ pc = "scan"
          => /\ day <= DaysInMonth
             /\ obs.calls.fetch = day
             /\ IdsOf(all_events) = obs.fetching.scan_ids
             /\ DistinctIds(all_events)
    /\ (pc = "process" /\ day > 1)
          => /\ day = DaysInMonth + 1
             /\ obs.calls.fetch = 1 + DaysInMonth
             /\ events_data = all_events
             /\ IdsOf(events_data) = obs.fetching.scan_ids
             /\ DistinctIds(events_data)

\* The scan is over: a day failed, a later day served events, and the list
\* handed on holds two ids.
C16_Witness ==
    /\ pc = "process"
    /\ day = DaysInMonth + 1
    /\ obs.fetching.after_skip
    /\ Len(events_data) = 2

\* An operation of FIAPCalendarAPI has been called and is over.
ApiCalled == obs.api.op \in ApiOperations

\* C17 as stated: no exception propagates out of the three operations.
C17_NoExceptionPropagates ==
    ApiCalled => obs.api.outcome # "raise"

\* C17: an operation raises to its caller exactly when the session has no
\* transport handle, is not authenticated or has no token; every other
\* failure (the POST raised, also on a closed transport, the status was not
\* 200, the body was no JSON) comes back as a value with an 'error' key, and
\* a parsed body comes back as it is.
C17_FailuresAsErrorValues ==
    ApiCalled =>
        /\ obs.api.outcome = "raise"
              <=> (obs.api.on.transport = "none" \/ ~obs.api.on.is_authenticated
                      \/ ~obs.api.on.sesskey)
        /\ obs.api.outcome = "error"
              <=> /\ obs.api.on.transport # "none"
                  /\ obs.api.on.is_authenticated /\ obs.api.on.sesskey
                  /\ \/ obs.api.on.transport = "closed"
                     \/ obs.api.post \in {"exception", "status", "badjson"}
        /\ obs.api.outcome = "value" <=> obs.api.post = "json"

\* The POST of an operation raised, and the caller holds an error value.
C17_Witness ==
    /\ ApiCalled
    /\ obs.api.on.transport = "open"
    /\ obs.api.post = "exception"
    /\ obs.api.outcome = "error"

\* C18: an operation called while the session is not authenticated or has no
\* token raises before any POST; a POST has only ever been sent over a
\* session that is authenticated and has a token; and the constructor
\* returns no object over a session that is not authenticated.
C18_NoRequestUnauthenticated ==
    /\ (ApiCalled /\ (~obs.api.on.is_authenticated \/ ~obs.api.on.sesskey))
          => (obs.api.outcome = "raise" /\ obs.api.post = "none")
    /\ obs.api.posts > 0 => (session.is_authenticated /\ session.sesskey)
    /\ obs.api.posts <= obs.api.calls
    /\ obs.api.built => session.is_authenticated
    /\ (obs.api.op = "construct" /\ ~obs.api.on.is_authenticated)
          => (obs.api.outcome = "raise" /\ ~obs.api.built)

\* An operation was called over an open transport on a session that is
\* marked authenticated and has no token: it raised, and nothing was sent.
C18_Witness ==
    /\ ApiCalled
    /\ obs.api.on.transport = "open"
    /\ obs.api.on.is_authenticated
    /\ ~obs.api.on.sesskey
    /\ obs.api.outcome = "raise"
    /\ obs.api.posts = 0

\* C19: when the announcement of an event has failed, every event of the
\* enriched new set has still been handed to the channel by the time the
\* notify stage is over.
C19_AnnounceGoesOnAfterFailure ==
    (pc \in {"cleanup", "done"} /\ obs.calls.announce_error > 0)
        => obs.calls.announce + obs.calls.announce_error = Len(updated_events)

\* C20: a _save_events call that does not write its whole list leaves the
\* period's file as it was, so that the next load returns the content of the
\* previous successful save.
C20_SaveAllOrNothing ==
    [][(obs'.calls.write = obs.calls.write + 1 /\ obs'.last_write = "failed")
            => store' = store]_vars

\* C21: when the save inside _process_events has failed, the run goes on to
\* no detail call, write-back or announcement, and returns false.
C21_MergeWriteFailureAborts ==
    (obs.calls.write = 1 /\ obs.last_write = "failed")
        => /\ pc \notin {"enrich", "update", "notify"}
           /\ pc = "done" => result = "false"

\* C22: from an empty store, after any sequence of runs, write-backs and
\* manual additions, every stored record has an id and no two stored records
\* have the same id.
C22_StoreIdsUnique ==
    DistinctIds(store)

\* The store holds a manual event and two scraped events, one of them with
\* the detail fields written back.
C22_Witness ==
    /\ Len(store) = 3
    /\ ManualEvent \in Range(store)
    /\ \E i \in 1..Len(store) : "local" \in DOMAIN store[i]

\* C23: at most one run of the engine instance is in progress at any time, a
\* trigger that arrives during a run being skipped.
C23_OneRunAtATime == Len(in_progress) <= 1

\* C24: _fetch_event_details appends a record that has the id its input
\* record had, whatever the detail response holds, and _update_stored_events
\* leaves the set of ids of the store as it was.
C24_EnrichmentKeepsIds ==
    [][/\ pc = "enrich" =>
            Get(updated_events'[Len(updated_events')], "id") = Get(new_events[index], "id")
       /\ pc = "update" => IdsOf(store') = IdsOf(store)]_vars

\* C25: once the write-back of the enrich stage has been saved, every new
\* record with an id is stored, under that id, as the record
\* _fetch_event_details returned for it.
C25_StoredEqualsEnriched ==
    (pc \in {"notify", "cleanup"} /\ obs.calls.write = 2 /\ obs.last_write = "ok")
        => \A i \in 1..Len(new_events) :
               Truthy(Get(new_events[i], "id"))
                   => \E j \in 1..Len(store) :
                          /\ Get(store[j], "id") = Get(new_events[i], "id")
                          /\ store[j] = updated_events[i]

\* C26: a run whose _fetch_calendar_events returned None returns false having
\* made no store write, no detail call and no announcement, with the store as
\* it was when the run started; no run is in _process_events after a fetch
\* that returned None.
C26_FetchFailureGates ==
    LET unusable == obs.fetching.fast_kind \in {"raise", "error_item", "empty"}
    IN  /\ (pc = "done" /\ success = "true" /\ result = "false")
              => /\ unusable
                 /\ obs.calls.fetch = 1
                 /\ obs.calls.write = 0
                 /\ obs.calls.detail = 0
                 /\ obs.calls.announce = 0
                 /\ obs.calls.announce_error = 0
                 /\ store = obs.at_start
        /\ pc = "process" => ~unusable

\* A run over a store that holds a record has returned false after its
\* fast-path response carried an error flag in its first item.
C26_Witness ==
    /\ pc = "done"
    /\ success = "true"
    /\ result = "false"
    /\ obs.fetching.fast_kind = "error_item"
    /\ store # <<>>

\* C27: an attempt of login is followed by one backoff wait exactly when it
\* ended in an exception and was not the final attempt; an attempt on which
\* login returns, the final one included, is followed by no wait.
C27_BackoffOrdering ==
    [][(pc = "login" /\ attempt' = attempt + 1)
          => /\ obs'.waits \in {obs.waits, obs.waits + 1}
             /\ (obs'.waits = obs.waits + 1)
                    <=> (obs'.last_raised /\ attempt' < max_retries)
             /\ (login_result' # "none" \/ attempt' = max_retries)
                    => obs'.waits = obs.waits]_vars

\* The final attempt of a login has raised and login returns false at once,
\* after every earlier attempt raised and was followed by its wait.
C27_Witness ==
    /\ pc = "login"
    /\ attempt = max_retries
    /\ attempt >= 2
    /\ obs.last_raised
    /\ login_result = "false"
    /\ obs.waits = attempt - 1

\* C28 (as stated): a pass of the loop of _fetch_event_details issues a
\* detail call unless the record lacks both id and type, and a skipped record
\* is appended as it is.
C28_CallUnlessBothMissing ==
    [][pc = "enrich"
          => LET event == new_events[index]
                 called == obs'.calls.detail = obs.calls.detail + 1
             IN  /\ called <=> (Truthy(Get(event, "id")) \/ Truthy(Get(event, "type")))
                 /\ ~called => updated_events' = Append(updated_events, event)]_vars

\* C28 (amended): a pass of the loop of _fetch_event_details issues a detail
\* call exactly when the record has both an id and a type; a record lacking
\* either is skipped and appended as it is.
C28_CallIffIdAndType ==
    [][pc = "enrich"
          => LET event == new_events[index]
                 called == obs'.calls.detail = obs.calls.detail + 1
             IN  /\ obs'.calls.detail \in {obs.calls.detail, obs.calls.detail + 1}
                 /\ called <=> (Truthy(Get(event, "id")) /\ Truthy(Get(event, "type")))
                 /\ ~called => updated_events' = Append(updated_events, event)]_vars

\* _fetch_event_details has gone through a record with an id and no type,
\* passed through as it is without a call, and a record with both, for which
\* the one detail call was made.
C28_Witness ==
    /\ pc = "update"
    /\ Len(new_events) = 2
    /\ obs.calls.detail = 1
    /\ \E i \in 1..2 :
          /\ Truthy(Get(new_events[i], "id"))
          /\ ~Truthy(Get(new_events[i], "type"))
          /\ updated_events[i] = new_events[i]
    /\ \E i \in 1..2 :
          /\ Truthy(Get(new_events[i], "id"))
          /\ Truthy(Get(new_events[i], "type"))

\* C29: once _process_events has run, every fetched record without an id is
\* in the stored list and in the list of new events handed on.
C29_NoIdPassedThrough ==
    pc # "process"
        => \A i \in 1..Len(events_data) :
               ~Truthy(Get(events_data[i], "id"))
                   => /\ events_data[i] \in Range(store)
                      /\ events_data[i] \in Range(new_events)

\* C30: a run whose fast-path response was not a non-empty list does not
\* return false.
C30_AnomalyNeverAborts ==
    (pc = "done" /\ success = "true" /\ obs.fetching.fast_kind = "empty")
        => result = "true"

\* C31: a detail call is issued only after the wait that follows the
\* previous detail call of the run.
C31_WaitBetweenDetailCalls ==
    [][(pc = "enrich" /\ obs'.calls.detail = obs.calls.detail + 1)
          => ~obs.unslept]_vars

\* C32: when the month ends between the load and the save of _process_events
\* or of _update_stored_events, the list built from the old period's file is
\* written to the new period's file: every id of the old file is then in the
\* new one, and the old file is left as it was.
C32_SaveFollowsClock ==
    [][(pc \in {"process", "update"} /\ month = 1 /\ month' = 2)
          => /\ store' = store
             /\ IdsOf(store) \subseteq IdsOf(next_store')
             /\ pc = "process"
                    => /\ existing_events' = store
                       /\ next_store' = all_events_for_storage'
             /\ pc = "update"
                    => next_store' = ReplaceUpdated(store, updated_events)]_vars

\* The month ended inside _process_events, the only save of the run so far:
\* the new period's file holds the records of the old period's file.
C32_Witness ==
    /\ month = 2
    /\ obs.calls.write = 1
    /\ store # <<>>
    /\ IdsOf(store) \subseteq IdsOf(next_store)

\* C33: a run that has ended has returned true or false, with a working and
\* with a failing file system, and sync_calendar hands the same on.
C33_AlwaysABoolean ==
    pc = "done"
        => /\ result \in {"true", "false"}
           /\ SyncCalendarResult(result) = result

\* A run has ended on an exception raised before authenticate_fiap returned.
C33_Witness ==
    /\ pc = "done"
    /\ success = "none"
    /\ result = "false"

\* C34: a run that has authenticated and has not yet cleaned up finds its
\* own session in self.session and behind self.api, with an open transport.
C34_RunsUseOwnSession ==
    \A i \in 1..Len(in_progress) :
        in_progress[i].stage >= 2
            => /\ instance.session = in_progress[i].id
               /\ instance.api = in_progress[i].id
               /\ instance.transports[in_progress[i].id] = "open"

\* C35: the second save of add_manual_event removes no record from the
\* store: every id stored before it is stored after it.
C35_SecondSaveKeepsRecords ==
    [][(command.pc = "announce" /\ command'.pc = "none")
          => IdsOf(store) \subseteq IdsOf(store')]_vars

\* C36: over any sequence of runs, failing loads and saves included, no
\* event id is announced more than once.
C36_AnnouncedAtMostOnce == \A id \in PortalIds : obs.announced[id] <= 1

\* C37: an event id that is in the store and has not been announced is
\* announced at some later point, in the same run or in a later one.
C37_StoredEventuallyAnnounced ==
    \A id \in PortalIds :
        (id \in IdsOf(store) /\ obs.announced[id] = 0) ~> (obs.announced[id] >= 1)

\* C38: a _process_events whose load of a non-empty file failed (it went on
\* with an empty list) leaves the file as it was.
C38_FailedLoadKeepsFile ==
    [][(pc = "process" /\ events_data # <<>> /\ store # <<>>
            /\ existing_events' = <<>>)
          => store' = store]_vars


\* C39: a session whose transport has been closed (__aexit__, _cleanup) is
\* rejected by the check every API operation starts with: it is no longer
\* marked authenticated with a cached token.
C39_ReleasedNotAuthenticated ==
    session.transport = "closed" => Rejects(session)


\* C40: after a per-day scan in which no single day served an id twice in
\* different sizes, every record the scan hands to _process_events is the
\* version of its id with the most fields that a day has served.
C40_ScanKeepsRicher ==
    (pc = "process" /\ ~obs.fetching.mixed /\ obs.fetching.fast_kind = "none")
       => \A i \in 1..Len(events_data) :
             FieldCount(events_data[i]) = obs.fetching.richest[events_data[i].id]

=============================================================================
